---- MODULE Spec2Model ----
(***************************************************************************)
(* Session/Identity Manager of the ESG application                         *)
(* (src/src/contexts/AuthContext.tsx, AuthProvider).                       *)
(*                                                                         *)
(* The manager keeps Session State {currentUser, userData, isLoading,      *)
(* isAdmin, error} in step with two backends: the identity provider        *)
(* (Firebase Auth) and the profile store (the Firestore collection         *)
(* "users").  Every `await` of the source is a point where the handler is  *)
(* suspended; one action of the model is the backend call that was awaited *)
(* together with the code that runs after it up to the next `await`.       *)
(* The presentation layer has one call of the manager outstanding at a     *)
(* time (variable op); reconciliation runs of the onAuthStateChanged       *)
(* callback (variable runs), notifications in flight (variable pending)    *)
(* and sign-ins made directly against the provider by the auth page        *)
(* (src/src/app/auth/page.tsx) interleave freely with it.                  *)
(*                                                                         *)
(* Spec has the e-mail/password operations; SpecLogin the federated login  *)
(* and the provider-only calls over records written at an earlier login;   *)
(* SpecSignUp registration and change of e-mail; SpecAdmin the one-shot    *)
(* admin check over records with and without isAdmin; SpecErr the          *)
(* error-message lookup over the errors a caller can pass.                 *)
(***************************************************************************)
EXTENDS Naturals, Sequences, FiniteSets, TLC

\* ---------------------------------------------------------------- bounds
MaxPending == 2      \* notifications queued and not yet handed to the callback
MaxRuns == 2         \* reconciliation runs suspended at an await

\* ------------------------------------------------------------ value space
Uids == {"u1"}
NoUser == "null"                       \* null where a FirebaseUser is expected
Null == [null |-> TRUE]                \* null where an object is expected
NoErr == "null"                        \* error: string | null
NoStr == "null"                        \* null where a string is expected
TS == "serverTimestamp"                \* the serverTimestamp() sentinel
EmptyObj == [k \in {} |-> TRUE]        \* {}

Has(obj, k) == k \in DOMAIN obj

\* {...a, ...b}: object spread, the right operand wins on shared keys
Merge(a, b) ==
  [k \in (DOMAIN a) \cup (DOMAIN b) |-> IF k \in DOMAIN b THEN b[k] ELSE a[k]]

\* a || b on strings (null and '' are falsy)
OrStr(a, b) == IF a = NoStr \/ a = "" THEN b ELSE a

\* -------------------------------------------------------- error messages
MsgInvalidLogin == "Invalid email or password. Please try again."
MsgEmailInUse == "This email is already registered. Please sign in or use a different email."
MsgWeakPassword == "The password is too weak. Please choose a stronger password."
MsgRecentLogin == "This operation is sensitive and requires recent authentication. Please sign out and sign in again."
MsgTooMany == "Too many attempts. Please try again later."
MsgGeneric == "An unexpected error occurred. Please try again."
MsgNotAuth == "User not authenticated or Firebase Auth not initialized."
MsgAuthNotInit == "Firebase Auth is not initialized."
MsgDbNotInit == "Firestore is not initialized."
MsgDbUnavailable == "Firestore is not available. User data may be incomplete."

\* errors thrown by the backends: FirebaseError instances {code, message}
ErrUserNotFound == [fb |-> TRUE, code |-> "auth/user-not-found", message |-> "Firebase: Error (auth/user-not-found)."]
ErrPopupClosed == [fb |-> TRUE, code |-> "auth/popup-closed-by-user", message |-> "Firebase: Error (auth/popup-closed-by-user)."]
ErrWrongPassword == [fb |-> TRUE, code |-> "auth/wrong-password", message |-> "Firebase: Error (auth/wrong-password)."]
ErrEmailInUse == [fb |-> TRUE, code |-> "auth/email-already-in-use", message |-> "Firebase: Error (auth/email-already-in-use)."]
ErrRecentLogin == [fb |-> TRUE, code |-> "auth/requires-recent-login", message |-> "Firebase: Error (auth/requires-recent-login)."]
ErrNetwork == [fb |-> TRUE, code |-> "auth/network-request-failed", message |-> "Firebase: Error (auth/network-request-failed)."]
ErrStore == [fb |-> TRUE, code |-> "unavailable", message |-> "Failed to reach the Firestore backend."]
ErrNotFound == [fb |-> TRUE, code |-> "not-found", message |-> "No document to update"]
ErrDisappeared == [fb |-> FALSE, code |-> "", message |-> "User disappeared after update"]

getFriendlyErrorMessage(e) ==
  LET fallback == IF e.message # "" THEN e.message ELSE MsgGeneric
  IN IF e.fb
       THEN CASE e.code \in {"auth/user-not-found", "auth/wrong-password"} -> MsgInvalidLogin
              [] e.code = "auth/email-already-in-use" -> MsgEmailInUse
              [] e.code = "auth/weak-password" -> MsgWeakPassword
              [] e.code = "auth/requires-recent-login" -> MsgRecentLogin
              [] e.code = "auth/too-many-requests" -> MsgTooMany
              [] OTHER -> fallback
       ELSE fallback

VARIABLES
  auth,          \* getFirebaseServices().auth is non-null
  db,            \* getFirebaseServices().db is non-null
  mounted,       \* the effect of AuthProvider has run and subscribed
  accounts,      \* identity provider: uid -> "free" | "live" | "deleted"
  profile,       \* identity provider: uid -> fields of the FirebaseUser object
  authUser,      \* identity provider: auth.currentUser (a uid, or NoUser)
  pending,       \* notifications emitted by the provider, not yet delivered
  users,         \* profile store: uid -> document of users/{uid}, or Null
  currentUser,   \* Session State
  userData,      \* Session State
  isLoading,     \* Session State
  isAdmin,       \* Session State
  error,         \* Session State
  runs,          \* runs of the onAuthStateChanged callback suspended at an await
  op,            \* the call of the manager: suspended at an await, or settled and not yet returned
  lastNotified,  \* the notification the callback received last ("none" before the first)
  services,      \* firebaseConfig.ts: the memoized handles, the SDK's registry, what each call returned
  page           \* admin verification page: the esgData store, the local list, the marker, calls in flight

appVars == <<services, page>>
envVars == <<auth, db, mounted, appVars>>
provVars == <<accounts, profile, authUser, pending>>
sessUser == <<currentUser, userData, isAdmin>>
sessVars == <<currentUser, userData, isAdmin, isLoading, error>>
vars == <<auth, db, mounted, accounts, profile, authUser, pending, users,
          currentUser, userData, isLoading, isAdmin, error, runs, op, lastNotified,
          services, page>>

\* ------------------------------------------------------- identity objects
Email(u) == IF u = "u1" THEN "a@x.com" ELSE "b@x.com"
NewEmail == "new@x.com"
NewName == "Ann"

InitProfile(u) == [email |-> Email(u), displayName |-> NoStr, photoURL |-> NoStr, emailVerified |-> FALSE]

\* the FirebaseUser object of uid u as the provider holds it now
FirebaseUser(u) ==
  [uid |-> u, email |-> profile[u].email, displayName |-> profile[u].displayName,
   photoURL |-> profile[u].photoURL, emailVerified |-> profile[u].emailVerified,
   isAnonymous |-> FALSE]

\* a Profile Record as signUp / loginWithProvider / the admin scripts leave it
StoredDoc(u, adm) ==
  [uid |-> u, email |-> Email(u), displayName |-> NoStr, photoURL |-> NoStr,
   emailVerified |-> FALSE, isAdmin |-> adm, roles |-> {"user"},
   createdAt |-> TS, updatedAt |-> TS, lastLoginAt |-> TS]

formatUserData(user, firestoreData) ==
  LET fs == IF firestoreData = Null THEN EmptyObj ELSE firestoreData
      baseData == [firebaseUid |-> user.uid, email |-> user.email,
                   displayName |-> user.displayName, photoURL |-> user.photoURL,
                   emailVerified |-> user.emailVerified, isAnonymous |-> user.isAnonymous]
      named == [uid |-> IF Has(fs, "uid") THEN OrStr(fs.uid, user.uid) ELSE user.uid,
                isAdmin |-> IF Has(fs, "isAdmin") THEN fs.isAdmin ELSE FALSE,
                roles |-> IF Has(fs, "roles") THEN fs.roles ELSE {"user"},
                firestoreCreatedAt |-> IF Has(fs, "createdAt") THEN fs.createdAt ELSE TS,
                firestoreUpdatedAt |-> IF Has(fs, "updatedAt") THEN fs.updatedAt ELSE TS,
                firestoreLastLoginAt |-> IF Has(fs, "lastLoginAt") THEN fs.lastLoginAt ELSE "undefined"]
  IN Merge(Merge(baseData, named), fs)

\* ------------------------------------------------------------- processes
Idle == [name |-> "idle", pc |-> "idle", uid |-> NoUser, data |-> EmptyObj, result |-> "none", ret |-> FALSE]

\* a call that has settled: the promise resolved (with ret) or rejected; Throw and Resolve
\* keep the arguments of the call in data
Settled(name, uid, result, ret) ==
  [name |-> name, pc |-> "settled", uid |-> uid, data |-> EmptyObj, result |-> result, ret |-> ret]

\* subsequence of s without its i-th element
RemoveAt(s, i) == [j \in 1..(Len(s) - 1) |-> IF j < i THEN s[j] ELSE s[j + 1]]

\* setCurrentUser / setUserData / setIsAdmin
SetSession(cu, ud, adm) == currentUser' = cu /\ userData' = ud /\ isAdmin' = adm

\* the setters with setIsAdmin(false) in place of setIsAdmin(formattedUser.isAdmin || false)
SetFromUser_forgetsAdmin(u, firestoreData) ==
  LET formattedUser == formatUserData(FirebaseUser(u), firestoreData)
  IN SetSession(u, formattedUser, FALSE)

\* the three setters as every handler calls them after formatUserData
SetFromUser(u, firestoreData) ==
  LET formattedUser == formatUserData(FirebaseUser(u), firestoreData)
  IN SetSession(u, formattedUser, formattedUser.isAdmin)

ClearSession == SetSession(NoUser, Null, FALSE)

\* the provider changes auth.currentUser; its listeners are told when the uid changed
SetAuthUser(u) ==
  /\ authUser' = u
  /\ pending' = IF u # authUser THEN Append(pending, u) ELSE pending

CanNotify == Len(pending) < MaxPending

\* firebaseConfig.ts at module load: nothing memoized, nothing created, no call made
NoHandles == [firebaseApp |-> 0, auth |-> 0, db |-> 0, storage |-> 0]
NoServices == [memo |-> NoHandles, sdk |-> NoHandles, made |-> NoHandles, returned |-> <<>>]

\* the verification page before it is rendered
NoPage == [store |-> EmptyObj, submissions |-> EmptyObj, updating |-> NoStr, calls |-> <<>>]

Init ==
  /\ auth \in BOOLEAN
  /\ db \in BOOLEAN
  /\ mounted = FALSE
  /\ accounts \in [Uids -> {"free", "live"}]
  /\ profile = [u \in Uids |-> InitProfile(u)]
  /\ authUser \in {NoUser} \cup {u \in Uids : accounts[u] = "live"}
  /\ users \in [Uids -> {Null} \cup {StoredDoc(u, a) : u \in Uids, a \in BOOLEAN}]
  /\ \A u \in Uids : users[u] # Null => users[u].uid = u /\ accounts[u] = "live"
  /\ pending = <<>>
  /\ currentUser = NoUser
  /\ userData = Null
  /\ isLoading = TRUE
  /\ isAdmin = FALSE
  /\ error = NoErr
  /\ runs = <<>>
  /\ op = Idle
  /\ lastNotified = "none"
  /\ services = NoServices
  /\ page = NoPage

\* ------------------------------------------- the effect of AuthProvider
Mount ==
  /\ ~mounted
  /\ mounted' = TRUE
  /\ IF ~auth
       THEN /\ isLoading' = FALSE
            /\ ClearSession
            /\ UNCHANGED pending
       ELSE /\ pending' = <<authUser>>
            /\ UNCHANGED <<isLoading, sessUser>>
  /\ UNCHANGED <<auth, db, appVars, accounts, profile, authUser, users, error, runs, op,
                 lastNotified>>

\* the callback with the last setIsLoading(false) inside the identity branch only
Deliver_nullKeepsLoading ==
  /\ mounted /\ auth
  /\ pending # <<>>
  /\ LET user == Head(pending) IN
       /\ pending' = Tail(pending)
       /\ lastNotified' = user
       /\ IF user = NoUser
            THEN /\ ClearSession
                 /\ isLoading' = TRUE
                 /\ UNCHANGED runs
            ELSE IF ~db
              THEN /\ SetFromUser(user, Null)
                   /\ isLoading' = FALSE
                   /\ UNCHANGED runs
              ELSE /\ Len(runs) < MaxRuns
                   /\ isLoading' = TRUE
                   /\ runs' = Append(runs, [user |-> user, pc |-> "getDoc"])
                   /\ UNCHANGED sessUser
  /\ UNCHANGED <<envVars, accounts, profile, authUser, users, error, op>>

\* the onAuthStateChanged callback up to its first await
Deliver ==
  /\ mounted /\ auth
  /\ pending # <<>>
  /\ LET user == Head(pending) IN
       /\ pending' = Tail(pending)
       /\ lastNotified' = user
       /\ IF user = NoUser
            THEN /\ ClearSession
                 /\ isLoading' = FALSE
                 /\ UNCHANGED runs
            ELSE IF ~db
              THEN /\ SetFromUser(user, Null)
                   /\ isLoading' = FALSE
                   /\ UNCHANGED runs
              ELSE /\ Len(runs) < MaxRuns
                   /\ isLoading' = TRUE
                   /\ runs' = Append(runs, [user |-> user, pc |-> "getDoc"])
                   /\ UNCHANGED sessUser
  /\ UNCHANGED <<envVars, accounts, profile, authUser, users, error, op>>

\* the callback with a catch that only logs the failed read
RunGetDoc_noCatch(i) ==
  /\ i \in 1..Len(runs)
  /\ runs[i].pc = "getDoc"
  /\ LET user == runs[i].user IN
       \/ /\ SetFromUser(user, users[user])
          /\ runs' = [runs EXCEPT ![i].pc = "updateDoc"]
          /\ UNCHANGED isLoading
       \/ /\ UNCHANGED sessUser
          /\ isLoading' = FALSE
          /\ runs' = RemoveAt(runs, i)
  /\ UNCHANGED <<envVars, provVars, users, error, op, lastNotified>>

\* getDoc(userDocRef) of the callback settles
RunGetDoc(i) ==
  /\ i \in 1..Len(runs)
  /\ runs[i].pc = "getDoc"
  /\ LET user == runs[i].user IN
       \/ \* the read succeeds
          /\ SetFromUser(user, users[user])
          /\ runs' = [runs EXCEPT ![i].pc = "updateDoc"]
          /\ UNCHANGED isLoading
       \/ \* the read fails: catch (error)
          /\ SetFromUser(user, Null)
          /\ isLoading' = FALSE
          /\ runs' = RemoveAt(runs, i)
  /\ UNCHANGED <<envVars, provVars, users, error, op, lastNotified>>

\* the callback writing lastLoginAt with setDoc, which replaces the document
RunUpdateDoc_setDoc(i) ==
  /\ i \in 1..Len(runs)
  /\ runs[i].pc = "updateDoc"
  /\ LET user == runs[i].user IN
       \/ /\ users[user] # Null
          /\ users' = [users EXCEPT ![user] = [lastLoginAt |-> TS]]
       \/ UNCHANGED users
  /\ isLoading' = FALSE
  /\ runs' = RemoveAt(runs, i)
  /\ UNCHANGED <<envVars, provVars, sessUser, error, op, lastNotified>>

\* updateDoc(userDocRef, {lastLoginAt}) of the callback settles
RunUpdateDoc(i) ==
  /\ i \in 1..Len(runs)
  /\ runs[i].pc = "updateDoc"
  /\ LET user == runs[i].user IN
       \/ /\ users[user] # Null
          /\ users' = [users EXCEPT ![user] = Merge(@, [lastLoginAt |-> TS])]
       \/ UNCHANGED users      \* the write fails (no document, or the store is down)
  /\ isLoading' = FALSE
  /\ runs' = RemoveAt(runs, i)
  /\ UNCHANGED <<envVars, provVars, sessUser, error, op, lastNotified>>

\* ------------------------------------------------ the shape of every call
CanCall == mounted /\ op = Idle

\* setIsLoading(true); setError(null); the handler reaches its first await
Begin(name, pc, uid, data) ==
  /\ op' = [name |-> name, pc |-> pc, uid |-> uid, data |-> data, result |-> "pending", ret |-> FALSE]
  /\ isLoading' = TRUE
  /\ error' = NoErr

\* a guard at the top of a handler: setIsLoading(false); setError(msg); throw
RejectAtCall(name, msg) ==
  /\ isLoading' = FALSE
  /\ error' = msg
  /\ op' = Settled(name, NoUser, "rejected", FALSE)

\* the awaited call rejects with e: catch { setError(friendly); throw } finally { setIsLoading(false) }
Throw(e) ==
  /\ error' = getFriendlyErrorMessage(e)
  /\ isLoading' = FALSE
  /\ op' = [Settled(op.name, op.uid, "rejected", FALSE) EXCEPT !.data = op.data]

\* the handler returns after its awaited call succeeded: finally { setIsLoading(false) }
Resolve(uid) ==
  /\ isLoading' = FALSE
  /\ op' = [Settled(op.name, uid, "resolved", FALSE) EXCEPT !.data = op.data]

\* Resolve, remembering in data that fetchUserData caught a failed read
ResolveAfterFailedRead(uid) ==
  /\ isLoading' = FALSE
  /\ op' = [Settled(op.name, uid, "resolved", FALSE) EXCEPT !.data = Merge(op.data, [readFailed |-> TRUE])]

\* the handler goes on to its next await
Goto(pc, uid, data) == op' = [op EXCEPT !.pc = pc, !.uid = uid, !.data = data]

\* sendVerificationEmail() called by a parent handler whose awaited call just succeeded
CallNestedVerification(uid) ==
  IF ~auth \/ authUser = NoUser
    THEN /\ error' = MsgNotAuth
         /\ Resolve(uid)
    ELSE /\ isLoading' = TRUE
         /\ error' = NoErr
         /\ Goto("sendEmailVerification", uid, op.data)

\* the caller's continuation takes the settled promise
Return ==
  /\ op.pc = "settled"
  /\ op' = Idle
  /\ UNCHANGED <<envVars, provVars, users, sessVars, runs, lastNotified>>

\* ---------------------------------------------------------------- signIn
CallSignIn(u) ==
  /\ CanCall
  /\ IF ~auth
       THEN RejectAtCall("signIn", MsgAuthNotInit)
       ELSE Begin("signIn", "signInWithEmailAndPassword", u, EmptyObj)
  /\ UNCHANGED <<envVars, provVars, users, sessUser, runs, lastNotified>>

SignInAuth ==
  /\ op.name = "signIn" /\ op.pc = "signInWithEmailAndPassword"
  /\ \/ /\ Throw(ErrWrongPassword)
        /\ UNCHANGED <<provVars, sessUser>>
     \/ /\ accounts[op.uid] = "live" /\ CanNotify
        /\ SetAuthUser(op.uid)
        /\ UNCHANGED <<accounts, profile>>
        /\ IF ~db
             THEN /\ SetFromUser(op.uid, Null)
                  /\ Resolve(op.uid)
                  /\ UNCHANGED error
             ELSE /\ Goto("updateDoc", op.uid, op.data)
                  /\ UNCHANGED sessVars
  /\ UNCHANGED <<envVars, users, runs, lastNotified>>

\* updateDoc(userDocRef, {lastLoginAt}) settles; a failure is logged and swallowed
SignInUpdateDoc ==
  /\ op.name = "signIn" /\ op.pc = "updateDoc"
  /\ \/ /\ users[op.uid] # Null
        /\ users' = [users EXCEPT ![op.uid] = Merge(@, [lastLoginAt |-> TS])]
        /\ Goto("fetchUserData", op.uid, op.data)
     \/ /\ UNCHANGED users
        /\ Goto("fetchUserData", op.uid, op.data)
  /\ UNCHANGED <<envVars, provVars, sessVars, runs, lastNotified>>

\* fetchUserData(uid) settles: the document, or null (absent, or the read failed and set error)
SignInFetch ==
  /\ op.name = "signIn" /\ op.pc = "fetchUserData"
  /\ \/ /\ SetFromUser(op.uid, users[op.uid])
        /\ UNCHANGED error
        /\ Resolve(op.uid)
     \/ /\ SetFromUser(op.uid, Null)
        /\ error' = getFriendlyErrorMessage(ErrStore)
        /\ ResolveAfterFailedRead(op.uid)
  /\ UNCHANGED <<envVars, provVars, users, runs, lastNotified>>

\* ---------------------------------------------------------------- signUp
AdditionalData == {EmptyObj, [isAdmin |-> TRUE], [roles |-> {"admin"}], [displayName |-> NewName]}

userDataToStore(user, additionalData) ==
  Merge([uid |-> user.uid, email |-> user.email,
         displayName |-> OrStr(user.displayName,
                               IF Has(additionalData, "displayName") THEN additionalData.displayName ELSE NoStr),
         photoURL |-> OrStr(user.photoURL,
                            IF Has(additionalData, "photoURL") THEN additionalData.photoURL ELSE NoStr),
         emailVerified |-> user.emailVerified,
         isAdmin |-> IF Has(additionalData, "isAdmin") THEN additionalData.isAdmin ELSE FALSE,
         roles |-> IF Has(additionalData, "roles") THEN additionalData.roles ELSE {"user"},
         createdAt |-> TS, updatedAt |-> TS, lastLoginAt |-> TS],
        additionalData)

CallSignUp(additionalData) ==
  /\ CanCall
  /\ IF ~auth THEN RejectAtCall("signUp", MsgAuthNotInit)
     ELSE IF ~db THEN RejectAtCall("signUp", MsgDbNotInit)
     ELSE Begin("signUp", "createUserWithEmailAndPassword", NoUser, additionalData)
  /\ UNCHANGED <<envVars, provVars, users, sessUser, runs, lastNotified>>

SignUpCreate ==
  /\ op.name = "signUp" /\ op.pc = "createUserWithEmailAndPassword"
  /\ \/ /\ Throw(ErrEmailInUse)
        /\ UNCHANGED provVars
     \/ \E u \in Uids :
          /\ accounts[u] = "free" /\ CanNotify
          /\ accounts' = [accounts EXCEPT ![u] = "live"]
          /\ SetAuthUser(u)
          /\ Goto("setDoc", u,
                  userDataToStore(FirebaseUser(u), op.data))
          /\ UNCHANGED <<profile, isLoading, error>>
  /\ UNCHANGED <<envVars, users, sessUser, runs, lastNotified>>

\* SignUpSetDoc with setDoc in a try/catch of its own, as the lastLoginAt writes are: a failed
\* write is logged and the handler goes on
SignUpSetDoc_swallowFailure ==
  /\ op.name = "signUp" /\ op.pc = "setDoc"
  /\ \/ UNCHANGED users
     \/ users' = [users EXCEPT ![op.uid] = op.data]
  /\ SetFromUser(op.uid, op.data)
  /\ CallNestedVerification(op.uid)
  /\ UNCHANGED <<envVars, provVars, runs, lastNotified>>

SignUpSetDoc ==
  /\ op.name = "signUp" /\ op.pc = "setDoc"
  /\ \/ /\ Throw(ErrStore)
        /\ UNCHANGED <<users, sessUser>>
     \/ /\ users' = [users EXCEPT ![op.uid] = op.data]
        /\ SetFromUser(op.uid, op.data)
        /\ CallNestedVerification(op.uid)
  /\ UNCHANGED <<envVars, provVars, runs, lastNotified>>

\* SendEmailVerification with `throw error` at the end of its catch, as in every other handler
SendEmailVerification_rethrow ==
  /\ op.pc = "sendEmailVerification"
  /\ \/ /\ Resolve(op.uid)
        /\ UNCHANGED error
     \/ Throw(ErrNetwork)
  /\ UNCHANGED <<envVars, provVars, users, sessUser, runs, lastNotified>>

\* firebaseSendEmailVerification settles, in sendVerificationEmail called directly or by a parent;
\* its catch sets error and does not rethrow
SendEmailVerification ==
  /\ op.pc = "sendEmailVerification"
  /\ \/ /\ Resolve(op.uid)
        /\ UNCHANGED error
     \/ /\ error' = getFriendlyErrorMessage(ErrNetwork)
        /\ Resolve(op.uid)
  /\ UNCHANGED <<envVars, provVars, users, sessUser, runs, lastNotified>>

\* --------------------------------------------------------------- signOut
CallSignOut ==
  /\ CanCall
  /\ IF ~auth
       THEN /\ isLoading' = FALSE
            /\ ClearSession
            /\ op' = Settled("signOut", NoUser, "resolved", FALSE)
            /\ UNCHANGED error
       ELSE /\ Begin("signOut", "firebaseSignOut", NoUser, EmptyObj)
            /\ UNCHANGED sessUser
  /\ UNCHANGED <<envVars, provVars, users, runs, lastNotified>>

SignOutAuth ==
  /\ op.name = "signOut" /\ op.pc = "firebaseSignOut"
  /\ \/ /\ CanNotify
        /\ SetAuthUser(NoUser)
        /\ ClearSession
        /\ Resolve(NoUser)
        /\ UNCHANGED error
     \/ /\ Throw(ErrNetwork)
        /\ UNCHANGED <<authUser, pending, sessUser>>
  /\ UNCHANGED <<envVars, accounts, profile, users, runs, lastNotified>>

\* ----------------------------------------------------- deleteUserAccount
CallDeleteUserAccount ==
  /\ CanCall
  /\ IF ~auth \/ authUser = NoUser THEN RejectAtCall("deleteUserAccount", MsgNotAuth)
     ELSE IF ~db THEN RejectAtCall("deleteUserAccount", MsgDbNotInit)
     ELSE Begin("deleteUserAccount", "deleteDoc", authUser, [hadProfile |-> users[authUser] # Null])
  /\ UNCHANGED <<envVars, provVars, users, sessUser, runs, lastNotified>>

\* DeleteDoc with the failure of deleteDoc swallowed: the handler goes on to the provider delete
DeleteDoc_swallowFailure ==
  /\ op.name = "deleteUserAccount" /\ op.pc = "deleteDoc"
  /\ \/ users' = [users EXCEPT ![op.uid] = Null]
     \/ UNCHANGED users
  /\ Goto("firebaseDeleteUserSdk", op.uid, op.data)
  /\ UNCHANGED <<envVars, provVars, sessVars, runs, lastNotified>>

\* deleteDoc(userDocRef) settles; deleting an absent document succeeds
DeleteDoc ==
  /\ op.name = "deleteUserAccount" /\ op.pc = "deleteDoc"
  /\ \/ /\ users' = [users EXCEPT ![op.uid] = Null]
        /\ Goto("firebaseDeleteUserSdk", op.uid, op.data)
        /\ UNCHANGED <<isLoading, error>>
     \/ /\ Throw(ErrStore)
        /\ UNCHANGED users
  /\ UNCHANGED <<envVars, provVars, sessUser, runs, lastNotified>>

\* DeleteUser with the three setters moved to the finally block: the session is cleared
\* whether or not the provider delete succeeded
DeleteUser_clearInFinally ==
  /\ op.name = "deleteUserAccount" /\ op.pc = "firebaseDeleteUserSdk"
  /\ ClearSession
  /\ \/ /\ CanNotify
        /\ accounts' = [accounts EXCEPT ![op.uid] = "deleted"]
        /\ SetAuthUser(NoUser)
        /\ Resolve(op.uid)
        /\ UNCHANGED error
     \/ /\ Throw(ErrRecentLogin)
        /\ UNCHANGED <<accounts, authUser, pending>>
  /\ UNCHANGED <<envVars, profile, users, runs, lastNotified>>

\* firebaseDeleteUserSdk(currentAuthUser) settles; the provider signs the deleted user out
DeleteUser ==
  /\ op.name = "deleteUserAccount" /\ op.pc = "firebaseDeleteUserSdk"
  /\ \/ /\ CanNotify
        /\ accounts' = [accounts EXCEPT ![op.uid] = "deleted"]
        /\ SetAuthUser(NoUser)
        /\ ClearSession
        /\ Resolve(op.uid)
        /\ UNCHANGED error
     \/ /\ Throw(ErrRecentLogin)
        /\ UNCHANGED <<accounts, authUser, pending, sessUser>>
  /\ UNCHANGED <<envVars, profile, users, runs, lastNotified>>

\* ---------------------------------- updateUserProfile / updateUserEmail
ProfileUpdates == {EmptyObj, [displayName |-> NewName], [photoURL |-> NoStr]}

\* after the writes: const refreshed = auth.currentUser; if (!refreshed) throw; fetchUserData(...)
Refetch ==
  IF authUser = NoUser
    THEN /\ error' = getFriendlyErrorMessage(ErrDisappeared)
         /\ isLoading' = FALSE
         /\ op' = Settled(op.name, op.uid, "rejected", FALSE)
    ELSE /\ Goto("fetchUserData", authUser, op.data)
         /\ UNCHANGED <<isLoading, error>>

CallUpdateUserProfile(updates) ==
  /\ CanCall
  /\ IF ~auth \/ authUser = NoUser THEN RejectAtCall("updateUserProfile", MsgNotAuth)
     ELSE IF ~db THEN RejectAtCall("updateUserProfile", MsgDbNotInit)
     ELSE Begin("updateUserProfile", "firebaseUpdateProfile", authUser, updates)
  /\ UNCHANGED <<envVars, provVars, users, sessUser, runs, lastNotified>>

firestoreUpdates(updates) == Merge([updatedAt |-> TS], updates)

UpdateProfileAuth ==
  /\ op.name = "updateUserProfile" /\ op.pc = "firebaseUpdateProfile"
  /\ \/ /\ Throw(ErrNetwork)
        /\ UNCHANGED profile
     \/ /\ profile' = [profile EXCEPT
             ![op.uid].displayName = IF Has(op.data, "displayName") THEN op.data.displayName ELSE @,
             ![op.uid].photoURL = IF Has(op.data, "photoURL") THEN op.data.photoURL ELSE @]
        /\ IF Cardinality(DOMAIN firestoreUpdates(op.data)) > 1
              \/ (Has(op.data, "photoURL") /\ op.data.photoURL = NoStr)
             THEN /\ Goto("updateDoc", op.uid, firestoreUpdates(op.data))
                  /\ UNCHANGED <<isLoading, error>>
             ELSE Refetch
  /\ UNCHANGED <<envVars, accounts, authUser, pending, users, sessUser, runs, lastNotified>>

\* updateDoc(userDocRef, op.data) settles; it fails when the document is absent
UpdateDoc ==
  /\ op.name \in {"updateUserProfile", "updateUserEmail"} /\ op.pc = "updateDoc"
  /\ \/ /\ users[op.uid] # Null
        /\ users' = [users EXCEPT ![op.uid] = Merge(@, op.data)]
        /\ Refetch
     \/ /\ Throw(IF users[op.uid] = Null THEN ErrNotFound ELSE ErrStore)
        /\ UNCHANGED users
  /\ UNCHANGED <<envVars, provVars, sessUser, runs, lastNotified>>

\* fetchUserData(refreshed.uid) settles, then the three setters
UpdateProfileFetch ==
  /\ op.name = "updateUserProfile" /\ op.pc = "fetchUserData"
  /\ \/ /\ SetFromUser(op.uid, users[op.uid])
        /\ UNCHANGED error
     \/ /\ SetFromUser(op.uid, Null)
        /\ error' = getFriendlyErrorMessage(ErrStore)
  /\ Resolve(op.uid)
  /\ UNCHANGED <<envVars, provVars, users, runs, lastNotified>>

CallUpdateUserEmail ==
  /\ CanCall
  /\ IF ~auth \/ authUser = NoUser THEN RejectAtCall("updateUserEmail", MsgNotAuth)
     ELSE IF ~db THEN RejectAtCall("updateUserEmail", MsgDbNotInit)
     ELSE Begin("updateUserEmail", "firebaseUpdateEmail", authUser,
                [email |-> NewEmail, emailVerified |-> FALSE, updatedAt |-> TS])
  /\ UNCHANGED <<envVars, provVars, users, sessUser, runs, lastNotified>>

UpdateEmailAuth ==
  /\ op.name = "updateUserEmail" /\ op.pc = "firebaseUpdateEmail"
  /\ \/ /\ Throw(ErrRecentLogin)
        /\ UNCHANGED profile
     \/ /\ profile' = [profile EXCEPT ![op.uid].email = NewEmail, ![op.uid].emailVerified = FALSE]
        /\ Goto("updateDoc", op.uid, op.data)
        /\ UNCHANGED <<isLoading, error>>
  /\ UNCHANGED <<envVars, accounts, authUser, pending, users, sessUser, runs, lastNotified>>

\* fetchUserData(refreshed.uid) settles, the three setters, then sendVerificationEmail()
UpdateEmailFetch ==
  /\ op.name = "updateUserEmail" /\ op.pc = "fetchUserData"
  /\ \/ SetFromUser(op.uid, users[op.uid])
     \/ SetFromUser(op.uid, Null)
  /\ CallNestedVerification(op.uid)
  /\ UNCHANGED <<envVars, provVars, users, runs, lastNotified>>

\* ------------- updateUserPassword / reauthenticateUser: provider only
CallUpdateUserPassword ==
  /\ CanCall
  /\ IF ~auth \/ authUser = NoUser THEN RejectAtCall("updateUserPassword", MsgNotAuth)
     ELSE Begin("updateUserPassword", "firebaseUpdatePassword", authUser, EmptyObj)
  /\ UNCHANGED <<envVars, provVars, users, sessUser, runs, lastNotified>>

CallReauthenticateUser ==
  /\ CanCall
  /\ IF ~auth \/ authUser = NoUser THEN RejectAtCall("reauthenticateUser", MsgNotAuth)
     ELSE Begin("reauthenticateUser", "firebaseReauthenticateWithCredential", authUser, EmptyObj)
  /\ UNCHANGED <<envVars, provVars, users, sessUser, runs, lastNotified>>

\* ProviderOnly with the three setters of linkAccountWithCredential copied into the success
\* path: the session is rebuilt from the provider's user alone
ProviderOnly_refreshSession ==
  /\ op.name \in {"updateUserPassword", "reauthenticateUser"}
  /\ op.pc \in {"firebaseUpdatePassword", "firebaseReauthenticateWithCredential"}
  /\ \/ /\ SetFromUser(op.uid, Null)
        /\ Resolve(op.uid)
        /\ UNCHANGED error
     \/ /\ Throw(IF op.name = "updateUserPassword" THEN ErrRecentLogin ELSE ErrWrongPassword)
        /\ UNCHANGED sessUser
  /\ UNCHANGED <<envVars, provVars, users, runs, lastNotified>>

\* firebaseUpdatePassword / firebaseReauthenticateWithCredential settles
ProviderOnly ==
  /\ op.name \in {"updateUserPassword", "reauthenticateUser"}
  /\ op.pc \in {"firebaseUpdatePassword", "firebaseReauthenticateWithCredential"}
  /\ \/ /\ Resolve(op.uid)
        /\ UNCHANGED error
     \/ Throw(IF op.name = "updateUserPassword" THEN ErrRecentLogin ELSE ErrWrongPassword)
  /\ UNCHANGED <<envVars, provVars, users, sessUser, runs, lastNotified>>

\* ------------------------------------------- linkAccountWithCredential
CallLinkAccountWithCredential ==
  /\ CanCall
  /\ IF ~auth \/ authUser = NoUser THEN RejectAtCall("linkAccountWithCredential", MsgNotAuth)
     ELSE Begin("linkAccountWithCredential", "firebaseLinkWithCredential", authUser, EmptyObj)
  /\ UNCHANGED <<envVars, provVars, users, sessUser, runs, lastNotified>>

LinkAuth ==
  /\ op.name = "linkAccountWithCredential" /\ op.pc = "firebaseLinkWithCredential"
  /\ \/ /\ Throw(ErrNetwork)
        /\ UNCHANGED sessUser
     \/ IF db
          THEN /\ Goto("fetchUserData", op.uid, op.data)
               /\ UNCHANGED sessVars
          ELSE /\ SetFromUser(op.uid, Null)
               /\ Resolve(op.uid)
               /\ UNCHANGED error
  /\ UNCHANGED <<envVars, provVars, users, runs, lastNotified>>

LinkFetch ==
  /\ op.name = "linkAccountWithCredential" /\ op.pc = "fetchUserData"
  /\ \/ /\ SetFromUser(op.uid, users[op.uid])
        /\ UNCHANGED error
     \/ /\ SetFromUser(op.uid, Null)
        /\ error' = getFriendlyErrorMessage(ErrStore)
  /\ Resolve(op.uid)
  /\ UNCHANGED <<envVars, provVars, users, runs, lastNotified>>

\* ------------------------------------------------ sendVerificationEmail
CallSendVerificationEmail ==
  /\ CanCall
  /\ IF ~auth \/ authUser = NoUser
       THEN /\ isLoading' = FALSE
            /\ error' = MsgNotAuth
            /\ op' = Settled("sendVerificationEmail", NoUser, "resolved", FALSE)
       ELSE Begin("sendVerificationEmail", "sendEmailVerification", authUser, EmptyObj)
  /\ UNCHANGED <<envVars, provVars, users, sessUser, runs, lastNotified>>

\* ----------------------------------------------------- checkAdminStatus
CallCheckAdminStatus(userId) ==
  /\ CanCall
  /\ IF ~db
       THEN op' = Settled("checkAdminStatus", userId, "resolved", FALSE)
       ELSE op' = [name |-> "checkAdminStatus", pc |-> "getDoc", uid |-> userId,
                   data |-> EmptyObj, result |-> "pending", ret |-> FALSE]
  /\ UNCHANGED <<envVars, provVars, users, sessVars, runs, lastNotified>>

\* CheckAdminGetDoc returning `data?.isAdmin !== false`: a record without the field reads
\* as admin
CheckAdminGetDoc_failOpen ==
  /\ op.name = "checkAdminStatus" /\ op.pc = "getDoc"
  /\ \/ /\ op' = Settled(op.name, op.uid, "resolved",
                          users[op.uid] # Null
                          /\ (Has(users[op.uid], "isAdmin") => users[op.uid].isAdmin))
        /\ UNCHANGED error
     \/ /\ op' = Settled(op.name, op.uid, "resolved", FALSE)
        /\ error' = getFriendlyErrorMessage(ErrStore)
  /\ UNCHANGED <<envVars, provVars, users, sessUser, isLoading, runs, lastNotified>>

CheckAdminGetDoc ==
  /\ op.name = "checkAdminStatus" /\ op.pc = "getDoc"
  /\ \/ /\ op' = Settled(op.name, op.uid, "resolved",
                          users[op.uid] # Null /\ Has(users[op.uid], "isAdmin")
                          /\ users[op.uid].isAdmin)
        /\ UNCHANGED error
     \/ /\ op' = Settled(op.name, op.uid, "resolved", FALSE)
        /\ error' = getFriendlyErrorMessage(ErrStore)
  /\ UNCHANGED <<envVars, provVars, users, sessUser, isLoading, runs, lastNotified>>

\* -------------------------------------------------------- resetPassword
CallResetPassword ==
  /\ CanCall
  /\ IF ~auth
       THEN RejectAtCall("resetPassword", MsgAuthNotInit)
       ELSE Begin("resetPassword", "firebaseSendPasswordResetEmail", NoUser, EmptyObj)
  /\ UNCHANGED <<envVars, provVars, users, sessUser, runs, lastNotified>>

\* firebaseSendPasswordResetEmail(currentAuth, email) settles
ResetPasswordAuth ==
  /\ op.name = "resetPassword" /\ op.pc = "firebaseSendPasswordResetEmail"
  /\ \/ /\ Resolve(NoUser)
        /\ UNCHANGED error
     \/ Throw(ErrUserNotFound)
     \/ Throw(ErrNetwork)
  /\ UNCHANGED <<envVars, provVars, users, sessUser, runs, lastNotified>>

\* ---------------------------------------------------- loginWithProvider
\* values of LoginProviderName the presentation layer passes; the switch has a case for
\* the members of SupportedProviders only
ProviderNames == {"google", "microsoft"}
SupportedProviders == {"google", "facebook", "twitter", "github"}

newUserFirestoreData(user) ==
  [uid |-> user.uid, email |-> user.email, displayName |-> user.displayName,
   photoURL |-> user.photoURL, emailVerified |-> user.emailVerified,
   isAdmin |-> FALSE, roles |-> {"user"},
   createdAt |-> TS, updatedAt |-> TS, lastLoginAt |-> TS]

CallLoginWithProvider(providerName) ==
  /\ CanCall
  /\ IF ~auth THEN RejectAtCall("loginWithProvider", MsgAuthNotInit)
     ELSE IF ~db THEN RejectAtCall("loginWithProvider", MsgDbNotInit)
     ELSE IF providerName \notin SupportedProviders
       THEN \* default: toast.error(...); throw, before setIsLoading(true) and outside the try
            /\ op' = Settled("loginWithProvider", NoUser, "rejected", FALSE)
            /\ UNCHANGED <<isLoading, error>>
       ELSE Begin("loginWithProvider", "signInWithPopup", NoUser, EmptyObj)
  /\ UNCHANGED <<envVars, provVars, users, sessUser, runs, lastNotified>>

\* signInWithPopup settles: the federated flow signs in an identity, new or known
LoginPopup ==
  /\ op.name = "loginWithProvider" /\ op.pc = "signInWithPopup"
  /\ \/ /\ Throw(ErrPopupClosed)
        /\ UNCHANGED provVars
     \/ \E u \in Uids :
          /\ accounts[u] \in {"free", "live"} /\ CanNotify
          /\ accounts' = [accounts EXCEPT ![u] = "live"]
          /\ SetAuthUser(u)
          /\ Goto("getDoc", u, EmptyObj)
          /\ UNCHANGED <<profile, isLoading, error>>
  /\ UNCHANGED <<envVars, users, sessUser, runs, lastNotified>>

\* getDoc(userDocRef) settles; data keeps what the next write needs: the new record, or the
\* snapshot that was read
LoginGetDoc ==
  /\ op.name = "loginWithProvider" /\ op.pc = "getDoc"
  /\ \/ Throw(ErrStore)
     \/ /\ IF users[op.uid] = Null
             THEN Goto("setDoc", op.uid, newUserFirestoreData(FirebaseUser(op.uid)))
             ELSE Goto("updateDoc", op.uid, users[op.uid])
        /\ UNCHANGED <<isLoading, error>>
  /\ UNCHANGED <<envVars, provVars, users, sessUser, runs, lastNotified>>

\* setDoc(userDocRef, newUserFirestoreData) settles
LoginSetDoc ==
  /\ op.name = "loginWithProvider" /\ op.pc = "setDoc"
  /\ \/ /\ Throw(ErrStore)
        /\ UNCHANGED <<users, sessUser>>
     \/ /\ users' = [users EXCEPT ![op.uid] = op.data]
        /\ SetFromUser(op.uid, op.data)
        /\ Resolve(op.uid)
        /\ UNCHANGED error
  /\ UNCHANGED <<envVars, provVars, runs, lastNotified>>

\* LoginUpdateDoc writing the whole record anew on a repeat login, as on the first
LoginUpdateDoc_overwrite ==
  /\ op.name = "loginWithProvider" /\ op.pc = "updateDoc"
  /\ \/ /\ users' = [users EXCEPT ![op.uid] = newUserFirestoreData(FirebaseUser(op.uid))]
        /\ SetFromUser(op.uid, op.data)
        /\ Resolve(op.uid)
        /\ UNCHANGED error
     \/ /\ Throw(ErrStore)
        /\ UNCHANGED <<users, sessUser>>
  /\ UNCHANGED <<envVars, provVars, runs, lastNotified>>

\* updateDoc(userDocRef, {lastLoginAt, updatedAt}) settles; the session is built from the
\* snapshot read before the write
LoginUpdateDoc ==
  /\ op.name = "loginWithProvider" /\ op.pc = "updateDoc"
  /\ \/ /\ users[op.uid] # Null
        /\ users' = [users EXCEPT ![op.uid] = Merge(@, [lastLoginAt |-> TS, updatedAt |-> TS])]
        /\ SetFromUser(op.uid, op.data)
        /\ Resolve(op.uid)
        /\ UNCHANGED error
     \/ /\ Throw(IF users[op.uid] = Null THEN ErrNotFound ELSE ErrStore)
        /\ UNCHANGED <<users, sessUser>>
  /\ UNCHANGED <<envVars, provVars, runs, lastNotified>>

\* ----------------- getFriendlyErrorMessage, as exposed in the context value
ErrorCodes == {"auth/user-not-found", "auth/wrong-password", "auth/email-already-in-use",
               "auth/weak-password", "auth/requires-recent-login", "auth/too-many-requests",
               "auth/network-request-failed", "unavailable"}
RawMessages == {"", "Firebase: Error (backend detail)."}

\* the errors a caller passes: FirebaseError instances, which carry a code, and other Error
\* objects, which carry a message only
ErrorInputs ==
  [fb : {TRUE}, code : ErrorCodes, message : RawMessages]
    \cup [fb : {FALSE}, code : {""}, message : RawMessages]

\* a synchronous call; the argument and the returned string are kept in data
CallGetFriendlyErrorMessage(e) ==
  /\ CanCall
  /\ op' = [Settled("getFriendlyErrorMessage", NoUser, "resolved", FALSE)
              EXCEPT !.data = [error |-> e, message |-> getFriendlyErrorMessage(e)]]
  /\ UNCHANGED <<envVars, provVars, users, sessVars, runs, lastNotified>>

\* ---------------------------------------------- formatUserData on its own
\* FirebaseUser objects the provider can hand out
UserInputs ==
  [uid : Uids, email : {Email("u1"), NewEmail}, displayName : {NoStr, NewName},
   photoURL : {NoStr}, emailVerified : BOOLEAN, isAnonymous : {FALSE}]

\* documents of users/{uid} as signUp, updateUserEmail, loginWithProvider and the admin
\* script leave them, and no document
RecordInputs ==
  {Null}
    \cup {userDataToStore(FirebaseUser(u), ad) :
            u \in Uids, ad \in AdditionalData \cup {[roles |-> {}], [company |-> "Acme"]}}
    \cup {Merge(StoredDoc(u, a), [email |-> NewEmail, emailVerified |-> TRUE]) :
            u \in Uids, a \in BOOLEAN}
    \cup {[isAdmin |-> TRUE, updatedAt |-> TS]}

\* a synchronous call; the arguments and the returned view are kept in data
CallFormatUserData(user, firestoreData) ==
  /\ CanCall
  /\ op' = [Settled("formatUserData", user.uid, "resolved", FALSE)
              EXCEPT !.data = [user |-> user, firestoreData |-> firestoreData,
                               mergedData |-> formatUserData(user, firestoreData)]]
  /\ UNCHANGED <<envVars, provVars, users, sessVars, runs, lastNotified>>

\* ------------------------------------------------- teardown of the effect
\* the cleanup the effect returned: unsubscribe(); setMounted(false).  The effect returned no
\* cleanup when auth was null.  Runs of the callback already suspended at an await go on.
Teardown ==
  /\ mounted /\ auth
  /\ mounted' = FALSE
  /\ pending' = <<>>
  /\ UNCHANGED <<auth, db, appVars, accounts, profile, authUser, users, sessVars, runs, op,
                 lastNotified>>

\* ------------------------------------- getFirebaseServices (firebaseConfig.ts)
MaxCalls == 4        \* calls of getFirebaseServices that are followed

\* where _initializeFirebaseCore throws, if it does
InitOutcomes == {"ok", "initializeApp", "getAuth", "initializeFirestore", "getStorage"}

AllNull == [auth |-> 0, db |-> 0, storage |-> 0, firebaseApp |-> 0]

\* the SDK hands out the instance it has, or creates instance number 1, 2, ...
Obtain(s, k) ==
  IF s.sdk[k] # 0 THEN s
  ELSE [s EXCEPT !.sdk[k] = s.made[k] + 1, !.made[k] = @ + 1]

\* _initializeFirebaseCore: each step memoizes what it obtained; the catch returns nulls and
\* leaves the memoized variables as they are
initializeFirebaseCore(s, outcome) ==
  LET s1 == Obtain(s, "firebaseApp")
      m1 == [s1 EXCEPT !.memo.firebaseApp = s1.sdk.firebaseApp]
      s2 == Obtain(m1, "auth")
      m2 == [s2 EXCEPT !.memo.auth = s2.sdk.auth]
      s3 == Obtain(m2, "db")
      m3 == [s3 EXCEPT !.memo.db = s3.sdk.db]
      s4 == Obtain(m3, "storage")
      m4 == [s4 EXCEPT !.memo.storage = s4.sdk.storage]
      Failed(t) == [t EXCEPT !.returned = Append(@, AllNull)]
  IN CASE outcome = "initializeApp" -> Failed(s)
       [] outcome = "getAuth" -> Failed(m1)
       [] outcome = "initializeFirestore" -> Failed(m2)
       [] outcome = "getStorage" -> Failed(m3)
       [] OTHER -> [m4 EXCEPT !.returned = Append(@, m4.memo)]

\* a browser-side call of getFirebaseServices()
GetFirebaseServices(outcome) ==
  /\ Len(services.returned) < MaxCalls
  /\ services' = IF services.memo.firebaseApp # 0
                   THEN [services EXCEPT !.returned = Append(@, services.memo)]
                   ELSE initializeFirebaseCore(services, outcome)
  /\ UNCHANGED <<auth, db, mounted, page, provVars, users, sessVars, runs, op, lastNotified>>

\* ------------------------------ VerificationPage (app/admin/dashboard/page.tsx)
MaxUpdates == 2      \* updateStatus calls in flight together

SubmissionIds == {"s1", "s2"}
Statuses == {"Pending", "Approved", "Rejected"}

\* the page after fetchSubmissions with the initial filter 'pending'; the list stays empty
\* when db is null or the query fails
OpenPage ==
  /\ page = NoPage
  /\ \E store \in [SubmissionIds -> Statuses], fetched \in BOOLEAN :
       page' = [store |-> store,
                submissions |-> IF db /\ fetched
                                  THEN [id \in {i \in SubmissionIds : store[i] = "Pending"} |-> store[id]]
                                  ELSE EmptyObj,
                updating |-> NoStr, calls |-> <<>>]
  /\ UNCHANGED <<auth, db, mounted, services, provVars, users, sessVars, runs, op, lastNotified>>

\* a click on Approve or Reject of a row: updateStatus(id, status) up to its await; the
\* handler closes over the submissions of the render that showed the button
CallUpdateStatus(id, status) ==
  /\ page # NoPage
  /\ id \in DOMAIN page.submissions
  /\ page.submissions[id] = "Pending"
  /\ page.updating # id
  /\ IF ~db
       THEN page' = [page EXCEPT !.updating = NoStr]
       ELSE /\ Len(page.calls) < MaxUpdates
            /\ page' = [page EXCEPT
                 !.updating = id,
                 !.calls = Append(@, [id |-> id, status |-> status, submissions |-> page.submissions])]
  /\ UNCHANGED <<auth, db, mounted, services, provVars, users, sessVars, runs, op, lastNotified>>

\* updateDoc(doc(db, 'esgData', id), ...) of the i-th call settles
UpdateStatusSettle(i) ==
  /\ page # NoPage
  /\ i \in 1..Len(page.calls)
  /\ LET c == page.calls[i] IN
       \/ page' = [page EXCEPT
            !.store[c.id] = c.status,
            !.submissions = [k \in DOMAIN c.submissions |->
                               IF k = c.id THEN c.status ELSE c.submissions[k]],
            !.updating = NoStr,
            !.calls = RemoveAt(@, i)]
       \/ page' = [page EXCEPT !.updating = NoStr, !.calls = RemoveAt(@, i)]
  /\ UNCHANGED <<auth, db, mounted, services, provVars, users, sessVars, runs, op, lastNotified>>

\* ------------- the auth page signs in / registers directly at the provider
\* PageSignIn with the page writing the signed-in user into Session State itself
PageSignIn_setsSession(u) ==
  /\ mounted /\ auth
  /\ accounts[u] = "live" /\ CanNotify
  /\ SetAuthUser(u)
  /\ SetFromUser(u, Null)
  /\ UNCHANGED <<envVars, accounts, profile, users, isLoading, error, runs, op, lastNotified>>

PageSignIn(u) ==
  /\ mounted /\ auth
  /\ accounts[u] = "live" /\ CanNotify
  /\ SetAuthUser(u)
  /\ UNCHANGED <<envVars, accounts, profile, users, sessVars, runs, op, lastNotified>>

PageSignUp(u) ==
  /\ mounted /\ auth
  /\ accounts[u] = "free" /\ CanNotify
  /\ accounts' = [accounts EXCEPT ![u] = "live"]
  /\ SetAuthUser(u)
  /\ UNCHANGED <<envVars, profile, users, sessVars, runs, op, lastNotified>>

\* ------------------------------------------------------------------ Next
Next ==
  \/ Mount
  \/ Deliver
  \/ Return
  \/ \E i \in 1..MaxRuns : RunGetDoc(i)
  \/ \E i \in 1..MaxRuns : RunUpdateDoc(i)
  \/ \E u \in Uids : CallSignIn(u)
  \/ SignInAuth
  \/ SignInUpdateDoc
  \/ SignInFetch
  \/ \E ad \in AdditionalData : CallSignUp(ad)
  \/ SignUpCreate
  \/ SignUpSetDoc
  \/ SendEmailVerification
  \/ CallSignOut
  \/ SignOutAuth
  \/ CallDeleteUserAccount
  \/ DeleteDoc
  \/ DeleteUser
  \/ \E up \in ProfileUpdates : CallUpdateUserProfile(up)
  \/ UpdateProfileAuth
  \/ UpdateDoc
  \/ UpdateProfileFetch
  \/ CallUpdateUserEmail
  \/ UpdateEmailAuth
  \/ UpdateEmailFetch
  \/ CallUpdateUserPassword
  \/ CallReauthenticateUser
  \/ ProviderOnly
  \/ CallLinkAccountWithCredential
  \/ LinkAuth
  \/ LinkFetch
  \/ CallSendVerificationEmail
  \/ \E u \in Uids : CallCheckAdminStatus(u)
  \/ CheckAdminGetDoc
  \/ \E u \in Uids : PageSignIn(u)
  \/ \E u \in Uids : PageSignUp(u)

Spec == Init /\ [][Next]_vars

\* ------------------------------- federated login and the provider-only calls
T0 == "2024-01-01T00:00:00Z"           \* a timestamp the server assigned earlier

\* a Profile Record written at an earlier login
OldDoc(u, adm) ==
  [StoredDoc(u, adm) EXCEPT !.roles = IF adm THEN {"user", "admin"} ELSE {"user"},
                            !.createdAt = T0, !.updatedAt = T0, !.lastLoginAt = T0]

InitLogin ==
  /\ auth \in BOOLEAN
  /\ db \in BOOLEAN
  /\ mounted = FALSE
  /\ accounts \in [Uids -> {"free", "live"}]
  /\ profile = [u \in Uids |-> InitProfile(u)]
  /\ authUser \in {NoUser} \cup {u \in Uids : accounts[u] = "live"}
  /\ users \in [Uids -> {Null} \cup {OldDoc(u, a) : u \in Uids, a \in BOOLEAN}]
  /\ \A u \in Uids : users[u] # Null => users[u].uid = u /\ accounts[u] = "live"
  /\ pending = <<>>
  /\ currentUser = NoUser
  /\ userData = Null
  /\ isLoading = TRUE
  /\ isAdmin = FALSE
  /\ error = NoErr
  /\ runs = <<>>
  /\ op = Idle
  /\ lastNotified = "none"
  /\ services = NoServices
  /\ page = NoPage

NextLogin ==
  \/ Mount
  \/ Deliver
  \/ Return
  \/ \E i \in 1..MaxRuns : RunGetDoc(i)
  \/ \E i \in 1..MaxRuns : RunUpdateDoc(i)
  \/ \E pn \in ProviderNames : CallLoginWithProvider(pn)
  \/ LoginPopup
  \/ LoginGetDoc
  \/ LoginSetDoc
  \/ LoginUpdateDoc
  \/ CallResetPassword
  \/ ResetPasswordAuth
  \/ CallReauthenticateUser
  \/ ProviderOnly
  \/ CallSignOut
  \/ SignOutAuth

SpecLogin == InitLogin /\ [][NextLogin]_vars

\* ------------------- registration, change of email and the verification email
NextSignUp ==
  \/ Mount
  \/ Deliver
  \/ Return
  \/ \E i \in 1..MaxRuns : RunGetDoc(i)
  \/ \E i \in 1..MaxRuns : RunUpdateDoc(i)
  \/ \E ad \in AdditionalData : CallSignUp(ad)
  \/ SignUpCreate
  \/ SignUpSetDoc
  \/ SendEmailVerification
  \/ CallUpdateUserEmail
  \/ UpdateEmailAuth
  \/ UpdateDoc
  \/ UpdateEmailFetch
  \/ CallSendVerificationEmail
  \/ CallSignOut
  \/ SignOutAuth
  \/ \E u \in Uids : PageSignIn(u)

SpecSignUp == Init /\ [][NextSignUp]_vars

\* --------------------------------------------- the one-shot admin check
\* a Profile Record written outside the manager, without the isAdmin field
LegacyDoc(u) ==
  [uid |-> u, email |-> Email(u), displayName |-> NoStr, photoURL |-> NoStr,
   emailVerified |-> FALSE, roles |-> {"user"}, createdAt |-> TS, updatedAt |-> TS]

InitAdmin ==
  /\ auth \in BOOLEAN
  /\ db \in BOOLEAN
  /\ mounted = FALSE
  /\ accounts \in [Uids -> {"free", "live"}]
  /\ profile = [u \in Uids |-> InitProfile(u)]
  /\ authUser \in {NoUser} \cup {u \in Uids : accounts[u] = "live"}
  /\ users \in [Uids -> {Null} \cup {StoredDoc(u, a) : u \in Uids, a \in BOOLEAN}
                               \cup {LegacyDoc(u) : u \in Uids}]
  /\ \A u \in Uids : users[u] # Null => users[u].uid = u /\ accounts[u] = "live"
  /\ pending = <<>>
  /\ currentUser = NoUser
  /\ userData = Null
  /\ isLoading = TRUE
  /\ isAdmin = FALSE
  /\ error = NoErr
  /\ runs = <<>>
  /\ op = Idle
  /\ lastNotified = "none"
  /\ services = NoServices
  /\ page = NoPage

NextAdmin ==
  \/ Mount
  \/ Deliver
  \/ Return
  \/ \E i \in 1..MaxRuns : RunGetDoc(i)
  \/ \E i \in 1..MaxRuns : RunUpdateDoc(i)
  \/ \E u \in Uids : CallCheckAdminStatus(u)
  \/ CheckAdminGetDoc
  \/ \E u \in Uids : PageSignIn(u)

SpecAdmin == InitAdmin /\ [][NextAdmin]_vars

\* ------------------------- the operations on a Profile Record that exists
NextPrivilege ==
  \/ Mount
  \/ Deliver
  \/ Return
  \/ \E i \in 1..MaxRuns : RunGetDoc(i)
  \/ \E i \in 1..MaxRuns : RunUpdateDoc(i)
  \/ \E u \in Uids : CallSignIn(u)
  \/ SignInAuth
  \/ SignInUpdateDoc
  \/ SignInFetch
  \/ \E up \in ProfileUpdates : CallUpdateUserProfile(up)
  \/ UpdateProfileAuth
  \/ UpdateDoc
  \/ UpdateProfileFetch
  \/ CallUpdateUserEmail
  \/ UpdateEmailAuth
  \/ UpdateEmailFetch
  \/ SendEmailVerification
  \/ CallUpdateUserPassword
  \/ CallReauthenticateUser
  \/ ProviderOnly
  \/ CallLinkAccountWithCredential
  \/ LinkAuth
  \/ LinkFetch
  \/ CallSendVerificationEmail
  \/ \E pn \in ProviderNames : CallLoginWithProvider(pn)
  \/ LoginPopup
  \/ LoginGetDoc
  \/ LoginSetDoc
  \/ LoginUpdateDoc

SpecPrivilege == InitLogin /\ [][NextPrivilege]_vars

\* ------------------------------------------------------ the merged view
NextFormat ==
  \/ Mount
  \/ Return
  \/ \E user \in UserInputs, firestoreData \in RecordInputs : CallFormatUserData(user, firestoreData)

SpecFormat == Init /\ [][NextFormat]_vars

\* ------------------------------------ the lazily created service handles
NextServices == \E o \in InitOutcomes : GetFirebaseServices(o)

SpecServices == Init /\ [][NextServices]_vars

\* --------------------------------------------- the admin verification queue
NextPage ==
  \/ OpenPage
  \/ \E id \in SubmissionIds, st \in {"Approved", "Rejected"} : CallUpdateStatus(id, st)
  \/ \E i \in 1..MaxUpdates : UpdateStatusSettle(i)

SpecPage == Init /\ [][NextPage]_vars

\* ------------------------------- notifications, reconciliation and teardown
NextTeardown ==
  \/ Mount
  \/ Teardown
  \/ Deliver
  \/ \E i \in 1..MaxRuns : RunGetDoc(i)
  \/ \E i \in 1..MaxRuns : RunUpdateDoc(i)
  \/ \E u \in Uids : PageSignIn(u)
  \/ \E u \in Uids : PageSignUp(u)

SpecTeardown == Init /\ [][NextTeardown]_vars

NextReconcile ==
  \/ Mount
  \/ Deliver
  \/ Return
  \/ \E i \in 1..MaxRuns : RunGetDoc(i)
  \/ \E i \in 1..MaxRuns : RunUpdateDoc(i)
  \/ \E u \in Uids : CallSignIn(u)
  \/ SignInAuth
  \/ SignInUpdateDoc
  \/ SignInFetch
  \/ CallSignOut
  \/ SignOutAuth
  \/ \E u \in Uids : PageSignIn(u)
  \/ \E u \in Uids : PageSignUp(u)

SpecReconcile == Init /\ [][NextReconcile]_vars

\* ------------------------------------------- the error-message lookup
NextErr ==
  \/ Mount
  \/ Return
  \/ \E e \in ErrorInputs : CallGetFriendlyErrorMessage(e)
  \/ CallResetPassword
  \/ ResetPasswordAuth

SpecErr == Init /\ [][NextErr]_vars

\* ======================================================================
\* Properties
\* ======================================================================
InFlight == op.result = "pending"
Quiet == op = Idle /\ runs = <<>> /\ pending = <<>>
LoggedOut == currentUser = NoUser /\ userData = Null /\ isAdmin = FALSE
RecordIsAdmin(u) == users[u] # Null /\ Has(users[u], "isAdmin") /\ users[u].isAdmin
SettledAs(name, result) == op.name = name /\ op.pc = "settled" /\ op.result = result
DeleteFailedAtProvider ==
  /\ op.name = "deleteUserAccount" /\ op.pc = "firebaseDeleteUserSdk"
  /\ op'.pc = "settled" /\ op'.result = "rejected"

\* C1: whenever nothing is in flight, isAdmin is false if userData is null, and isAdmin is
\* true only if the Profile Record now stored for the current identity has isAdmin = true.
C1_AdminOnlyFromStoredRecord ==
  Quiet =>
    /\ userData = Null => isAdmin = FALSE
    /\ isAdmin => currentUser # NoUser /\ RecordIsAdmin(currentUser)

\* C2: a signUp that resolved left a Profile Record with isAdmin = false and roles = {"user"}
\* for the new identity, whatever extraFields were passed, so checkAdminStatus reads false.
C2_SignUpLeastPrivilege ==
  SettledAs("signUp", "resolved") =>
    /\ users[op.uid] # Null
    /\ users[op.uid].isAdmin = FALSE
    /\ users[op.uid].roles = {"user"}
    /\ ~RecordIsAdmin(op.uid)

\* C3: once every reconciliation and call has settled, Session State shows the identity of
\* the notification received last; if that was "no identity", the session is logged out.
C3_NoStaleOverwrite ==
  (Quiet /\ lastNotified # "none") =>
    /\ currentUser = lastNotified
    /\ lastNotified = NoUser => LoggedOut

\* C4: a call of an operation that requires a session, made while Session State's
\* currentUser is null, rejects at once with the not-authenticated message and writes
\* nothing to the provider or the store.
SessionOps == {"updateUserProfile", "updateUserEmail", "updateUserPassword",
               "linkAccountWithCredential", "reauthenticateUser", "sendVerificationEmail",
               "deleteUserAccount"}

C4_NullSessionRejects ==
  [][(op = Idle /\ op' # Idle /\ op'.name \in SessionOps /\ currentUser = NoUser)
       => /\ op'.pc = "settled" /\ op'.result = "rejected"
          /\ error' = MsgNotAuth
          /\ UNCHANGED <<accounts, profile, authUser, users>>]_vars

\* C5: once a notification has been received and no reconciliation is left in flight,
\* isLoading goes from false to true only in a step of an explicitly called operation.
C5_LoadingOnlyRisesInOperations ==
  [][(lastNotified # "none" /\ runs = <<>> /\ ~isLoading /\ isLoading')
       => (op' # op /\ op'.result = "pending")]_vars

\* C6: when signOut settles, resolved or rejected, Session State is logged out.
C6_SignOutAlwaysClears ==
  [][(op # op' /\ op'.name = "signOut" /\ op'.pc = "settled") => LoggedOut']_vars

\* C7: once deleteUserAccount has succeeded for an identity, no Profile Record of it is
\* stored, checkAdminStatus of it returns false, and Session State does not show it.
C7_DeletedIdentityGone ==
  \A id \in Uids : accounts[id] = "deleted" =>
    /\ users[id] = Null
    /\ (SettledAs("checkAdminStatus", "resolved") /\ op.uid = id) => op.ret = FALSE
    /\ currentUser # id
    /\ userData = Null \/ userData.firebaseUid # id

\* C8: the provider identity is deleted only by the step of deleteUserAccount that follows
\* its successful profile delete, with the Profile Record gone; a failed profile delete
\* settles the call and leaves the provider untouched.
C8_ProfileDeleteBeforeProviderDelete ==
  [][/\ \A u \in Uids : (accounts[u] # "deleted" /\ accounts'[u] = "deleted") =>
          /\ op.name = "deleteUserAccount" /\ op.pc = "firebaseDeleteUserSdk" /\ op.uid = u
          /\ users[u] = Null
     /\ (op.name = "deleteUserAccount" /\ op'.pc = "firebaseDeleteUserSdk" /\ op.pc # op'.pc) =>
          /\ op.pc = "deleteDoc" /\ users'[op.uid] = Null
     /\ (op.name = "deleteUserAccount" /\ op.pc = "deleteDoc" /\ op' # op
           /\ op'.pc # "firebaseDeleteUserSdk") =>
          /\ op'.pc = "settled" /\ op'.result = "rejected"
          /\ UNCHANGED <<accounts, authUser, users>>]_vars

C8_Witness ==
  /\ SettledAs("deleteUserAccount", "resolved")
  /\ op.data.hadProfile
  /\ accounts[op.uid] = "deleted" /\ users[op.uid] = Null

\* C9: a deleteUserAccount that rejected, called for an identity that had a Profile Record,
\* does not leave that identity signed in at the provider without a Profile Record.
C9_NoOrphanAfterFailedDelete ==
  (SettledAs("deleteUserAccount", "rejected") /\ op.uid # NoUser /\ op.data.hadProfile) =>
    ~(accounts[op.uid] = "live" /\ authUser = op.uid /\ users[op.uid] = Null)

\* C10: when the provider delete fails after the profile delete succeeded, the call rejects
\* with error set, and no step of the failing call changes currentUser or userData.
C10_FailedProviderDeleteKeepsSession ==
  [][/\ DeleteFailedAtProvider =>
          /\ error' # NoErr
          /\ UNCHANGED <<currentUser, userData, isAdmin>>
     /\ (op # op' /\ op'.name = "deleteUserAccount" /\ op'.result # "resolved") =>
          UNCHANGED <<currentUser, userData>>]_vars

C10_Witness ==
  /\ SettledAs("deleteUserAccount", "rejected") /\ op.uid # NoUser
  /\ op.data.hadProfile /\ users[op.uid] = Null /\ accounts[op.uid] = "live"
  /\ error = MsgRecentLogin
  /\ currentUser = op.uid /\ userData # Null

\* C11: the step of signUp that follows a failed Profile Record write rejects the call with
\* error set and writes nothing; a signUp settles as resolved only with the Profile Record of
\* the new identity stored.
C11_SignUpFailsWhenProfileWriteFails ==
  [][/\ (op.name = "signUp" /\ op.pc = "setDoc" /\ op' # op) =>
          \/ users'[op.uid] = op.data /\ op'.result # "rejected"
          \/ /\ users' = users
             /\ op'.pc = "settled" /\ op'.result = "rejected"
             /\ error' # NoErr
     /\ (op' # op /\ op'.name = "signUp" /\ op'.pc = "settled" /\ op'.result = "resolved") =>
          users'[op'.uid] # Null]_vars

C11_Witness ==
  /\ SettledAs("signUp", "rejected") /\ op.uid # NoUser
  /\ accounts[op.uid] = "live" /\ users[op.uid] = Null
  /\ error = getFriendlyErrorMessage(ErrStore)

\* C12: a signIn that resolves while the profile store is not initialized, or after its read
\* of the Profile Record failed, leaves userData.isAdmin = false and error set to a string.
C12_SignInWarnsWhenStoreUnreachable ==
  [][(op' # op /\ op'.name = "signIn" /\ op'.pc = "settled" /\ op'.result = "resolved"
        /\ (~db \/ Has(op'.data, "readFailed")))
       => /\ userData' # Null /\ userData'.isAdmin = FALSE
          /\ error' # NoErr]_vars

\* C13: when a mutating operation settles as rejected, error is non-null and isLoading is
\* false.
MutatingOps == {"signIn", "signUp", "signOut", "resetPassword", "updateUserProfile",
                "updateUserEmail", "updateUserPassword", "loginWithProvider",
                "linkAccountWithCredential", "reauthenticateUser", "deleteUserAccount"}

C13_FailureStoredAndRethrown ==
  [][(op' # op /\ op'.name \in MutatingOps /\ op'.pc = "settled" /\ op'.result = "rejected")
       => (error' # NoErr /\ ~isLoading')]_vars

\* C14: checkAdminStatus never rejects, and what it returns is true only if the store is
\* initialized and the stored record of that id has isAdmin = true.
C14_CheckAdminFailsClosed ==
  /\ op.name = "checkAdminStatus" => op.result # "rejected"
  /\ (SettledAs("checkAdminStatus", "resolved") /\ op.ret) => (db /\ RecordIsAdmin(op.uid))

C14_Witness ==
  /\ SettledAs("checkAdminStatus", "resolved")
  /\ db /\ users[op.uid] # Null /\ ~Has(users[op.uid], "isAdmin")
  /\ op.ret = FALSE

\* C15: sendVerificationEmail never rejects, whether called directly or by a parent; the
\* step of signUp after its successful record write and the step of updateUserEmail after
\* its re-read do not reject, and the verification step always resolves the call.
C15_VerificationNeverFailsParent ==
  [][/\ (op.pc = "sendEmailVerification" /\ op' # op) =>
          (op'.pc = "settled" /\ op'.result = "resolved")
     /\ (op' # op /\ op'.name = "sendVerificationEmail") => op'.result # "rejected"
     /\ (op.name = "signUp" /\ op.pc = "setDoc" /\ op' # op /\ users'[op.uid] = op.data) =>
          op'.result # "rejected"
     /\ (op.name = "updateUserEmail" /\ op.pc = "fetchUserData" /\ op' # op) =>
          op'.result # "rejected"]_vars

C15_Witness ==
  /\ SettledAs("signUp", "resolved")
  /\ users[op.uid] # Null
  /\ error = getFriendlyErrorMessage(ErrNetwork)

\* C16: loginWithProvider writes a new record (isAdmin = false, roles = {"user"}) only where
\* none was stored, and on a repeat login sets lastLoginAt and updatedAt of the stored record
\* and changes no other field of it, and no other record.
C16_FederatedLoginIdempotent ==
  [][/\ (op.name = "loginWithProvider" /\ op' # op /\ op'.pc = "setDoc") =>
          users[op.uid] = Null
     /\ (op.name = "loginWithProvider" /\ op' # op /\ op'.pc = "updateDoc") =>
          users[op.uid] # Null
     /\ (op.name = "loginWithProvider" /\ op.pc = "setDoc" /\ op' # op
           /\ op'.result = "resolved") =>
          /\ users[op.uid] = Null /\ users'[op.uid] # Null
          /\ users'[op.uid].isAdmin = FALSE /\ users'[op.uid].roles = {"user"}
          /\ \A v \in Uids \ {op.uid} : users'[v] = users[v]
     /\ (op.name = "loginWithProvider" /\ op.pc = "updateDoc" /\ op' # op
           /\ op'.result = "resolved") =>
          /\ users[op.uid] # Null /\ users'[op.uid] # Null
          /\ DOMAIN users'[op.uid] = DOMAIN users[op.uid] \cup {"lastLoginAt", "updatedAt"}
          /\ \A k \in DOMAIN users[op.uid] \ {"lastLoginAt", "updatedAt"} :
               users'[op.uid][k] = users[op.uid][k]
          /\ users'[op.uid].lastLoginAt = TS /\ users'[op.uid].updatedAt = TS
          /\ \A v \in Uids \ {op.uid} : users'[v] = users[v]
     /\ (op.name = "loginWithProvider" /\ op' # op /\ op'.result = "rejected") =>
          users' = users]_vars

C16_Witness ==
  /\ SettledAs("loginWithProvider", "resolved")
  /\ users[op.uid] # Null
  /\ users[op.uid].isAdmin /\ users[op.uid].roles = {"user", "admin"}
  /\ users[op.uid].createdAt = T0
  /\ users[op.uid].lastLoginAt = TS /\ users[op.uid].updatedAt = TS

\* C17 as stated: Session State starts as {null, null, true, false, null}, and every step
\* that changes it is the delivery of a notification, a step of its reconciliation, or a
\* step of a call of the manager.
InitialSession ==
  currentUser = NoUser /\ userData = Null /\ isLoading = TRUE /\ isAdmin = FALSE
  /\ error = NoErr
NotificationStep == (pending # <<>> /\ pending' = Tail(pending)) \/ runs' # runs
OperationStep == op' # op
StartWithoutProvider ==
  ~mounted /\ mounted' /\ ~auth /\ LoggedOut' /\ ~isLoading' /\ error' = error

C18_ProviderOnlyCallsKeepSession ==
  [][(op' # op /\ ({op.name, op'.name} \cap {"resetPassword", "reauthenticateUser"}) # {})
       => UNCHANGED <<currentUser, userData, isAdmin, users>>]_vars

C18_Witness ==
  /\ SettledAs("reauthenticateUser", "resolved")
  /\ currentUser = op.uid /\ userData # Null /\ isAdmin

\* C19: no step of checkAdminStatus, whatever the outcome of its read, changes a field of
\* Session State.
C19_CheckAdminKeepsSession ==
  [][(op' # op /\ "checkAdminStatus" \in {op.name, op'.name}) => UNCHANGED sessVars]_vars

\* C20: getFriendlyErrorMessage maps a provider or store error with a known code to the fixed
\* sentence of that code whatever its raw message, and never returns the raw message of the
\* provider or store error it was given.
FixedSentence(code) ==
  CASE code \in {"auth/user-not-found", "auth/wrong-password"} -> MsgInvalidLogin
    [] code = "auth/email-already-in-use" -> MsgEmailInUse
    [] code = "auth/weak-password" -> MsgWeakPassword
    [] code = "auth/requires-recent-login" -> MsgRecentLogin
    [] code = "auth/too-many-requests" -> MsgTooMany
    [] OTHER -> NoStr

C20_FixedLookupNeverRaw ==
  op.name = "getFriendlyErrorMessage" =>
    LET e == op.data.error
        m == op.data.message
    IN /\ (e.fb /\ FixedSentence(e.code) # NoStr) => m = FixedSentence(e.code)
       /\ (e.fb /\ e.message # "") => m # e.message

\* C21: at no time are two runs of the reconciliation, each spanning its profile read and
\* its lastLoginAt write, in flight together.
C21_NoOverlappingReconciliations == Len(runs) <= 1

\* C22: once the teardown has cancelled the subscription, no step changes Session State,
\* a step of a reconciliation that was awaiting its profile read included.
C22_NoUpdateAfterTeardown ==
  [][(mounted = FALSE /\ mounted' = FALSE) => UNCHANGED sessVars]_vars

\* C23: the delivery of a notification that reports no identity leaves currentUser = null,
\* userData = null, isAdmin = false and isLoading = false, whatever Session State was.
DeliveryStep == pending # <<>> /\ pending' = Tail(pending)

C23_NoIdentityClearsSession ==
  [][(DeliveryStep /\ Head(pending) = NoUser) => (LoggedOut' /\ isLoading' = FALSE)]_vars

C23_Witness ==
  /\ lastNotified = NoUser /\ pending = <<>> /\ runs # <<>>
  /\ LoggedOut /\ isLoading = FALSE

\* C24: a notification with an active identity whose profile cannot be used (store not
\* initialized, read failed, record absent) makes currentUser that identity and userData the
\* view of the identity alone, with isAdmin = false and roles = {"user"}, and the
\* reconciliation ends with isLoading = false.
FromIdentityOnly(u) ==
  /\ currentUser = u /\ userData # Null /\ isAdmin = FALSE
  /\ userData.firebaseUid = u /\ userData.uid = u
  /\ userData.email = profile[u].email /\ userData.displayName = profile[u].displayName
  /\ userData.isAdmin = FALSE /\ userData.roles = {"user"}
  /\ ~Has(userData, "createdAt") /\ ~Has(userData, "lastLoginAt")

ReadFailedStep(i) == i \in 1..Len(runs) /\ runs[i].pc = "getDoc" /\ runs' = RemoveAt(runs, i)
ReadDoneStep(i) ==
  i \in 1..Len(runs) /\ runs[i].pc = "getDoc" /\ runs' = [runs EXCEPT ![i].pc = "updateDoc"]
WriteDoneStep(i) == i \in 1..Len(runs) /\ runs[i].pc = "updateDoc" /\ runs' = RemoveAt(runs, i)

C24_IdentityOnlyWithoutProfile ==
  [][/\ \A u \in Uids :
          (DeliveryStep /\ Head(pending) = u /\ ~db) => (FromIdentityOnly(u)' /\ isLoading' = FALSE)
     /\ \A i \in 1..MaxRuns, u \in Uids :
          /\ (ReadFailedStep(i) /\ runs[i].user = u) => (FromIdentityOnly(u)' /\ isLoading' = FALSE)
          /\ (ReadDoneStep(i) /\ runs[i].user = u /\ users[u] = Null) => FromIdentityOnly(u)'
          /\ WriteDoneStep(i) => (isLoading' = FALSE /\ UNCHANGED sessUser)]_vars

C24_Witness ==
  /\ db /\ currentUser # NoUser /\ lastNotified = currentUser /\ runs = <<>> /\ op = Idle
  /\ users[currentUser] # Null /\ users[currentUser].isAdmin
  /\ userData.roles = {"user"} /\ ~Has(userData, "createdAt") /\ isAdmin = FALSE
  /\ isLoading = FALSE

\* C25: a failed lastLoginAt write of a reconciliation or of signIn, and a failed verification
\* email of signUp or updateUserEmail, leave currentUser, userData, isAdmin and error as the
\* successful side operation leaves them.
C25_SideFailuresNotSurfaced ==
  [][/\ (op.pc = "sendEmailVerification" /\ op.name \in {"signUp", "updateUserEmail"} /\ op' # op)
          => UNCHANGED <<sessUser, error>>
     /\ (op.name = "signIn" /\ op.pc = "updateDoc" /\ op' # op) => UNCHANGED <<sessUser, error>>
     /\ \A i \in 1..MaxRuns : WriteDoneStep(i) => UNCHANGED <<sessUser, error>>]_vars

\* C26: in the view formatUserData returns, every key of the record has the record's value;
\* isAdmin and roles are the record's, or false and {"user"} when the record is absent or
\* lacks the field; roles is never empty.
C26_RecordTakesPrecedence ==
  op.name = "formatUserData" =>
    LET r == op.data.firestoreData
        m == op.data.mergedData
    IN /\ r # Null => \A k \in DOMAIN r : m[k] = r[k]
       /\ m.isAdmin = (IF r # Null /\ Has(r, "isAdmin") THEN r.isAdmin ELSE FALSE)
       /\ m.roles = (IF r # Null /\ Has(r, "roles") THEN r.roles ELSE {"user"})
       /\ m.roles # {}

\* C27: the auth and db connections are each created at most once, and every call of
\* getFirebaseServices returns the auth and db handles the first call returned, also when
\* the first initialization failed part-way.
C27_GetOrCreateIdempotent ==
  /\ services.made.auth <= 1 /\ services.made.db <= 1
  /\ \A i \in 1..Len(services.returned) :
       /\ services.returned[i].auth = services.returned[1].auth
       /\ services.returned[i].db = services.returned[1].db

WritableFields == {"lastLoginAt", "updatedAt", "displayName", "photoURL", "email", "emailVerified"}

C29_NoPrivilegeChange ==
  [][\A u \in Uids : users[u] # Null =>
        /\ users'[u] # Null
        /\ \A k \in (DOMAIN users[u] \cup DOMAIN users'[u]) \ WritableFields :
             k \in DOMAIN users[u] /\ k \in DOMAIN users'[u] /\ users'[u][k] = users[u][k]
        /\ users'[u].isAdmin = users[u].isAdmin /\ users'[u].roles = users[u].roles]_vars

C29_Witness ==
  \E u \in Uids :
    /\ users[u] # Null /\ users[u].email = NewEmail /\ users[u].lastLoginAt = TS
    /\ users[u].createdAt = T0 /\ users[u].isAdmin = TRUE /\ users[u].roles = {"user", "admin"}

\* C30: once every updateStatus call has settled, the local list shows for each of its
\* submissions the verificationStatus last written to the store, and updating is null.
C30_ListShowsLastWrittenStatus ==
  page.calls = <<>> =>
    /\ \A id \in DOMAIN page.submissions : page.submissions[id] = page.store[id]
    /\ page.updating = NoStr

====
